---- MODULE Spec2Model ----
(***************************************************************************)
(* State-machine model of mouse.py: the profile store (pickle file and     *)
(* profile scripts of one model directory), the Mouse session with         *)
(* cycle_profile and read_active_profile, and the ratbagctl tool as a      *)
(* table of canned responses.                                              *)
(***************************************************************************)
EXTENDS Integers, Sequences, FiniteSets, TLC

VARIABLES
    pickle,                 \* models/<model>/<model>.pickle: [exists, bytes]
    scripts,                \* names of the *.sh files in the model directory
    device,                 \* the responses ratbagctl gives for the connected mouse
    pc,                     \* per session: position in the running call
    op,                     \* per session: the call in progress
    profiles,               \* Mouse.profiles
    button_count,           \* Mouse.button_count
    current_profile,        \* local current_profile of the running call
    self_current_profile,   \* Mouse.current_profile (attribute set by cycle_profile)
    err,                    \* exception raised by the running call
    got,                    \* history: outcome of the call's open/pickle.load
    loaded,                 \* history: value load_pickled_profile returned to the call
    ran,                    \* history: scripts the call ran with "sh", with exit status
    mods,                   \* history: changes the call made to the pickle file
    oldptr,                 \* history: what the pickle held when the call opened it "wb"
    overlap,                \* history: the saves that were between open and close when the call read
    firstRun,               \* history: session was constructed with no pickle and no default.sh
    savedSince,             \* history: some save opened the pickle since the session was constructed
    chain,                  \* history: a load found the pickle absent and no save opened it since
    lastSaved,              \* history: profile of the save that finished last
    run,                    \* history: consecutive completed cycles of a session
    snap                    \* the locals of the read_active_profile call in progress

vars == <<pickle, scripts, device, pc, op, profiles, button_count, current_profile,
          self_current_profile, err, got, loaded, ran, mods, oldptr, overlap,
          firstRun, savedSince, chain, lastSaved, run, snap>>

fsVars   == <<pickle, scripts>>
histVars == <<got, loaded, ran, mods, oldptr, overlap, firstRun, savedSince, chain,
              lastSaved, run>>

----------------------------------------------------------------------------
(* Bounds of the model *)

Sessions == {"m1", "m2"}

\* Candidate script names, listed in ascending (lexicographic) filename order.
NameOrder == <<"a.sh", "default.sh", "z.sh">>
Names == {NameOrder[i] : i \in 1..Len(NameOrder)}

None == "None"

----------------------------------------------------------------------------
(* Profile store *)

DefaultSh == "default.sh"

Rank(n) == CHOOSE i \in 1..Len(NameOrder) : NameOrder[i] = n

RECURSIVE Sorted(_)
Sorted(S) ==
    IF S = {} THEN <<>>
    ELSE LET m == CHOOSE x \in S : \A y \in S : Rank(x) <= Rank(y)
         IN  <<m>> \o Sorted(S \ {m})

get_all_shell_scripts_in(dir) == Sorted(dir)

\* Number of body bytes the path of a profile takes in the pickle.
PathLen(p) == IF p = DefaultSh THEN 2 ELSE 1

\* pickle.dump(profile_fp, pf): protocol header, frame, the path, STOP.
Dump(p) == <<"PROTO", "FRAME">> \o [i \in 1..PathLen(p) |-> p] \o <<"STOP">>

Exc(kind) == [kind |-> kind, val |-> None]

\* pickle.load(pf) on the bytes of an open file.
PickleLoad(bytes) ==
    IF bytes = <<>> THEN Exc("EOFError")
    ELSE IF bytes[1] # "PROTO" THEN Exc("UnpicklingError")
    ELSE IF Len(bytes) = 1 THEN Exc("EOFError")
    ELSE IF bytes[2] # "FRAME" THEN Exc("UnpicklingError")
    ELSE IF \A k \in 3..Len(bytes) : bytes[k] # "STOP" THEN Exc("UnpicklingError")
    ELSE LET k    == CHOOSE j \in 3..Len(bytes) :
                         bytes[j] = "STOP" /\ \A i \in 3..(j - 1) : bytes[i] # "STOP"
             body == SubSeq(bytes, 3, k - 1)
         IN  IF /\ body # <<>>
                /\ body[1] \in Names
                /\ Len(body) = PathLen(body[1])
                /\ \A i \in 1..Len(body) : body[i] = body[1]
             THEN [kind |-> "ok", val |-> body[1]]
             ELSE Exc("UnpicklingError")

\* with open(pickle_path, "rb") as pf: pickle.load(pf)
ReadPickle(f) ==
    IF ~f.exists THEN Exc("FileNotFoundError") ELSE PickleLoad(f.bytes)

\* Variants of Handled: an except clause for FileNotFoundError alone, and a
\* bare except clause.
Handled_OnlyMissing(kind) == kind = "FileNotFoundError"

Handled_All(kind) == TRUE

\* Exceptions handled by load_pickled_profile's except clause.
Handled(kind) == kind \in {"FileNotFoundError", "EOFError"}

\* open(pickle_fp, "wb"): creates the file or truncates it.
OpenWb(f) == [exists |-> TRUE, bytes |-> <<>>]

\* Variant of WriteAt0: the file is opened in append mode.
WriteAt0_Append(f, new) == [exists |-> TRUE, bytes |-> f.bytes \o new]

\* The buffered write of a dump, flushed at offset 0 when the file is closed.
WriteAt0(f, new) ==
    [exists |-> TRUE, bytes |-> new \o SubSeq(f.bytes, Len(new) + 1, Len(f.bytes))]

\* Path.touch(): creates the file empty if absent, keeps its content otherwise.
Touch(f) == IF f.exists THEN f ELSE [exists |-> TRUE, bytes |-> <<>>]

\* What load_pickled_profile returns on the file f (None: it raises).
LoadValue(f) ==
    LET r == ReadPickle(f)
    IN  IF r.kind = "ok" THEN r.val
        ELSE IF Handled(r.kind) THEN DefaultSh
        ELSE None

----------------------------------------------------------------------------
(* cycle_profile: the selection of the next profile *)

InList(p, lst) == \E i \in 1..Len(lst) : lst[i] = p

\* list.index(x): 0-based index of the first occurrence.
IndexOf(p, lst) == (CHOOSE i \in 1..Len(lst) : lst[i] = p /\ \A j \in 1..(i - 1) : lst[j] # p) - 1

\* Variant of NextProfile: the IndexError past the end is handled by staying on
\* the last profile.
NextProfile_NoWrap(lst, current_idx) ==
    IF current_idx + 1 < Len(lst) THEN lst[current_idx + 2] ELSE lst[Len(lst)]

\* self.profiles[current_idx + 1], self.profiles[0] on IndexError.
NextProfile(lst, current_idx) ==
    IF current_idx + 1 < Len(lst) THEN lst[current_idx + 2] ELSE lst[1]

\* Variant of Select: a profile that is not in the list is taken as the one
\* before the first.
Select_Reset(lst, p) ==
    IF InList(p, lst)
    THEN [found |-> TRUE, nxt |-> NextProfile(lst, IndexOf(p, lst))]
    ELSE IF lst # <<>> THEN [found |-> TRUE, nxt |-> lst[1]]
    ELSE [found |-> FALSE, nxt |-> None]

\* Lines 209-213 of cycle_profile: the profile that follows p in lst, or the
\* ValueError of list.index when p is not in lst.
Select(lst, p) ==
    IF InList(p, lst)
    THEN [found |-> TRUE, nxt |-> NextProfile(lst, IndexOf(p, lst))]
    ELSE [found |-> FALSE, nxt |-> None]

----------------------------------------------------------------------------
(* ratbagctl: the output of each command, for one connected mouse *)

\* Longest resolution list, most buttons and longest LED list of a modelled mouse.
MaxRes == 2
MaxButtons == 2
MaxLeds == 1

ErrorOut == [kind |-> "error", a |-> None, b |-> None, c |-> None]

\* "<i>: <dpi>dpi @ ..." lines of "resolution <i> get"
ResOutputs == {[kind |-> "dpi_line", a |-> d, b |-> None, c |-> None] : d \in {"800", "1600"}}
\* "Button: <i> is mapped to '<binding>'" lines of "button <i> get"; the binding
\* is a sequence of characters, the arrows of a key chord among them.
BtnOutputs == {[kind |-> "quoted", a |-> <<"DOWN_ARROW", "B", "UP_ARROW", "B">>, b |-> None, c |-> None]}
\* "LED: <i>, depth: rgb, mode: on, color: ff0000, ..." lines of "led <i> get"
LedOutputs == {[kind |-> "led_line", a |-> "0", b |-> "on", c |-> "ff0000"]}

SeqsUpTo(S, n) == UNION {[1..k -> S] : k \in 0..n}

IntOut(v) == [isint |-> TRUE, val |-> v]
NotInt == [isint |-> FALSE, val |-> 0]

Devices ==
    {[listed |-> FALSE, count |-> NotInt, rate |-> NotInt, res |-> <<>>, btn |-> <<>>, led |-> <<>>]}
    \cup
    {[listed |-> TRUE, count |-> cb[1], rate |-> rt, res |-> rs, btn |-> cb[2], led |-> ld] :
        cb \in ({<<NotInt, <<>> >>}
                \cup UNION {{<<IntOut(c), b>> : b \in [1..c -> BtnOutputs \cup {ErrorOut}]} : c \in 0..MaxButtons}),
        rt \in {IntOut(1000), NotInt},
        rs \in SeqsUpTo(ResOutputs \cup {ErrorOut}, MaxRes),
        ld \in SeqsUpTo(LedOutputs \cup {ErrorOut}, MaxLeds)}

\* The mouse of the profile-store specifications.
PlainDevice ==
    [listed |-> TRUE, count |-> IntOut(0), rate |-> IntOut(1000),
     res |-> <<>>, btn |-> <<>>, led |-> <<>>]

\* Variant of get_bash_stdout: the tool is asked for index idx + 1.
get_bash_stdout_OneBased(kind, idx) ==
    IF idx + 1 < Len(device[kind]) THEN device[kind][idx + 2] ELSE ErrorOut

\* get_bash_stdout of an indexed "get" command: the tool's line for that index,
\* an error message past the last one.
get_bash_stdout(kind, idx) ==
    IF idx < Len(device[kind]) THEN device[kind][idx + 1] ELSE ErrorOut

NoMatch == [matched |-> FALSE, groups |-> <<>>]

\* res_re.match: r"\d:\s(\d{,5})dpi.*"
res_re_match(out) ==
    IF out.kind = "dpi_line" THEN [matched |-> TRUE, groups |-> <<out.a>>] ELSE NoMatch

\* btn_re.match: r".*'(.*)'.*"
btn_re_match(out) ==
    IF out.kind = "quoted" THEN [matched |-> TRUE, groups |-> <<out.a>>] ELSE NoMatch

\* led_re.match: the pattern is an alternation, and a line that starts with
\* "LED:" matches its first branch, which leaves groups 4 and 5 unset.
led_re_match(out) ==
    IF out.kind = "led_line"
    THEN [matched |-> TRUE, groups |-> <<out.a, out.b, out.c, None, None>>]
    ELSE NoMatch

\* .replace("↕", "KEY_").replace("↓", "+KEY_").replace("↑", "-KEY_")
ReplaceArrows(name) ==
    [k \in 1..Len(name) |->
        IF name[k] = "UPDOWN_ARROW" THEN "KEY_"
        ELSE IF name[k] = "DOWN_ARROW" THEN "+KEY_"
        ELSE IF name[k] = "UP_ARROW" THEN "-KEY_"
        ELSE name[k]]

Query(kind, idx) == [cmd |-> kind, idx |-> idx]

NoSnap == [owner |-> None, report_rate |-> 0, res_idx |-> 0, resolutions |-> <<>>,
           i |-> 0, buttons |-> <<>>, led_idx |-> 0, leds |-> <<>>, queries |-> <<>>]

NoRun == [origin |-> None, n |-> 0]
NoChain == [on |-> FALSE, scripts0 |-> {}]

----------------------------------------------------------------------------
(* Initial states: any content of the model directory, no session yet *)

Absent == [exists |-> FALSE, bytes |-> <<>>]

InitPickles ==
    {Absent, [exists |-> TRUE, bytes |-> <<>>]}
    \cup {[exists |-> TRUE, bytes |-> Dump(p)] : p \in Names}
    \cup {[exists |-> TRUE, bytes |-> b] : b \in {<<"X">>, <<"PROTO">>, <<"PROTO", "FRAME">>}}

InitSessions ==
    /\ pc = [s \in Sessions |-> "new"]
    /\ op = [s \in Sessions |-> None]
    /\ profiles = [s \in Sessions |-> <<>>]
    /\ button_count = [s \in Sessions |-> 0]
    /\ current_profile = [s \in Sessions |-> None]
    /\ self_current_profile = [s \in Sessions |-> None]
    /\ err = [s \in Sessions |-> None]
    /\ got = [s \in Sessions |-> Exc("none")]
    /\ loaded = [s \in Sessions |-> None]
    /\ ran = [s \in Sessions |-> <<>>]
    /\ mods = [s \in Sessions |-> <<>>]
    /\ oldptr = [s \in Sessions |-> Exc("none")]
    /\ overlap = [s \in Sessions |-> {}]
    /\ firstRun = [s \in Sessions |-> FALSE]
    /\ savedSince = [s \in Sessions |-> FALSE]
    /\ chain = NoChain
    /\ lastSaved = None
    /\ run = [s \in Sessions |-> NoRun]
    /\ snap = NoSnap

Init ==
    /\ pickle \in InitPickles
    /\ scripts \in SUBSET Names
    /\ device = PlainDevice
    /\ InitSessions

----------------------------------------------------------------------------
(* Mouse.__init__ *)

\* Variant of Construct: the load of line 141 is not commented out, so the
\* placeholder pickle and default.sh are created before the scripts are listed.
Construct_LoadFirst(s) ==
    /\ pc[s] = "new"
    /\ IF device.listed /\ device.count.isint /\ LoadValue(pickle) # None
       THEN /\ pc' = [pc EXCEPT ![s] = "idle"]
            /\ button_count' = [button_count EXCEPT ![s] = device.count.val]
            /\ pickle' = (IF ReadPickle(pickle).kind = "ok" THEN pickle ELSE Touch(pickle))
            /\ scripts' = (IF ReadPickle(pickle).kind = "ok" THEN scripts
                           ELSE scripts \cup {DefaultSh})
            /\ profiles' = [profiles EXCEPT ![s] = get_all_shell_scripts_in(scripts')]
            /\ self_current_profile' = [self_current_profile EXCEPT ![s] = LoadValue(pickle)]
            /\ firstRun' = [firstRun EXCEPT ![s] = ~pickle.exists /\ DefaultSh \notin scripts]
            /\ savedSince' = [savedSince EXCEPT ![s] = FALSE]
            /\ err' = err
       ELSE /\ pc' = [pc EXCEPT ![s] = "dead"]
            /\ err' = [err EXCEPT ![s] = IF ~device.listed THEN "AttributeError"
                                         ELSE IF ~device.count.isint THEN "ValueError"
                                         ELSE "UnpicklingError"]
            /\ UNCHANGED <<pickle, scripts, button_count, profiles, self_current_profile,
                           firstRun, savedSince>>
    /\ UNCHANGED <<device, op, current_profile, got, loaded, ran, mods, oldptr, overlap,
                   chain, lastSaved, run, snap>>

\* get_mouse_alias_and_model and get_button_count raise when the tool's output
\* does not parse; the session is then never constructed.
Construct(s) ==
    /\ pc[s] = "new"
    /\ IF device.listed /\ device.count.isint
       THEN /\ pc' = [pc EXCEPT ![s] = "idle"]
            /\ button_count' = [button_count EXCEPT ![s] = device.count.val]
            /\ profiles' = [profiles EXCEPT ![s] = get_all_shell_scripts_in(scripts)]
            /\ firstRun' = [firstRun EXCEPT ![s] = ~pickle.exists /\ DefaultSh \notin scripts]
            /\ savedSince' = [savedSince EXCEPT ![s] = FALSE]
            /\ err' = err
       ELSE /\ pc' = [pc EXCEPT ![s] = "dead"]
            /\ err' = [err EXCEPT ![s] = IF device.listed THEN "ValueError" ELSE "AttributeError"]
            /\ UNCHANGED <<button_count, profiles, firstRun, savedSince>>
    /\ UNCHANGED <<pickle, scripts, device, op, current_profile, self_current_profile,
                   got, loaded, ran, mods, oldptr, overlap, chain, lastSaved, run, snap>>

----------------------------------------------------------------------------
(* load_pickled_profile, as called by cycle_profile or on its own *)

AfterLoad(s) == IF op[s] = "cycle" THEN "select" ELSE "returned"

CallCycle(s) ==
    /\ pc[s] = "idle"
    /\ pc' = [pc EXCEPT ![s] = "load_read"]
    /\ op' = [op EXCEPT ![s] = "cycle"]
    /\ UNCHANGED <<fsVars, device, profiles, button_count, current_profile,
                   self_current_profile, err, histVars, snap>>

CallLoad(s) ==
    /\ pc[s] = "idle"
    /\ pc' = [pc EXCEPT ![s] = "load_read"]
    /\ op' = [op EXCEPT ![s] = "load"]
    /\ UNCHANGED <<fsVars, device, profiles, button_count, current_profile,
                   self_current_profile, err, histVars, snap>>

\* The try block: open(pickle_path, "rb") and pickle.load.
LoadRead(s) ==
    /\ pc[s] = "load_read"
    /\ overlap' = [overlap EXCEPT ![s] =
                      {[old |-> oldptr[w].val, new |-> current_profile[w]] :
                          w \in {x \in Sessions \ {s} :
                                    pc[x] = "save_write" /\ oldptr[x].kind = "ok"}}]
    /\ LET r == ReadPickle(pickle)
       IN  /\ got' = [got EXCEPT ![s] = r]
           /\ IF r.kind = "ok"
              THEN /\ current_profile' = [current_profile EXCEPT ![s] = r.val]
                   /\ loaded' = [loaded EXCEPT ![s] = r.val]
                   /\ pc' = [pc EXCEPT ![s] = AfterLoad(s)]
                   /\ UNCHANGED <<err, chain>>
              ELSE IF Handled(r.kind)
              THEN /\ pc' = [pc EXCEPT ![s] = "load_touch_pickle"]
                   /\ chain' = IF r.kind = "FileNotFoundError"
                               THEN [on |-> TRUE, scripts0 |-> scripts]
                               ELSE chain
                   /\ UNCHANGED <<current_profile, loaded, err>>
              ELSE /\ pc' = [pc EXCEPT ![s] = "raised"]
                   /\ err' = [err EXCEPT ![s] = r.kind]
                   /\ UNCHANGED <<current_profile, loaded, chain>>
    /\ UNCHANGED <<fsVars, device, op, profiles, button_count, self_current_profile,
                   ran, mods, oldptr, firstRun, savedSince, lastSaved, run, snap>>

\* The except block: pickle_path.touch()
LoadTouchPickle(s) ==
    /\ pc[s] = "load_touch_pickle"
    /\ pickle' = Touch(pickle)
    /\ mods' = [mods EXCEPT ![s] =
                   IF Touch(pickle) = pickle THEN @
                   ELSE Append(@, [ev |-> IF pickle.exists THEN "change" ELSE "create",
                                   p |-> None])]
    /\ pc' = [pc EXCEPT ![s] = "load_touch_default"]
    /\ UNCHANGED <<scripts, device, op, profiles, button_count, current_profile,
                   self_current_profile, err, got, loaded, ran, oldptr, overlap, firstRun,
                   savedSince, chain, lastSaved, run, snap>>

\* The except block: current_profile = Path(fp / "default.sh"); current_profile.touch()
LoadTouchDefault(s) ==
    /\ pc[s] = "load_touch_default"
    /\ current_profile' = [current_profile EXCEPT ![s] = DefaultSh]
    /\ scripts' = scripts \cup {DefaultSh}
    /\ loaded' = [loaded EXCEPT ![s] = DefaultSh]
    /\ pc' = [pc EXCEPT ![s] = AfterLoad(s)]
    /\ UNCHANGED <<pickle, device, op, profiles, button_count, self_current_profile,
                   err, got, ran, mods, oldptr, overlap, firstRun, savedSince, chain,
                   lastSaved, run, snap>>

----------------------------------------------------------------------------
(* Mouse.cycle_profile after the load *)

\* current_idx = self.profiles.index(current_profile) and the choice of the next
\* profile; index raises ValueError when the profile is not in the list.
CycleSelect(s) ==
    /\ pc[s] = "select"
    /\ IF Select(profiles[s], current_profile[s]).found
       THEN LET nxt == Select(profiles[s], current_profile[s]).nxt
            IN  /\ current_profile' = [current_profile EXCEPT ![s] = nxt]
                /\ self_current_profile' = [self_current_profile EXCEPT ![s] = nxt]
                /\ pc' = [pc EXCEPT ![s] = "exec"]
                /\ err' = err
       ELSE /\ err' = [err EXCEPT ![s] = "ValueError"]
            /\ pc' = [pc EXCEPT ![s] = "raised"]
            /\ UNCHANGED <<current_profile, self_current_profile>>
    /\ UNCHANGED <<fsVars, device, op, profiles, button_count, histVars, snap>>

\* Exit statuses a profile script may end with.
ExitStatuses == {0, 1}

\* Variant of CycleExec: subprocess.run(..., check=True) raises on a non-zero
\* exit status.
CycleExec_Checked(s) ==
    /\ pc[s] = "exec"
    /\ \E status \in ExitStatuses :
          /\ ran' = [ran EXCEPT ![s] = Append(@, [script |-> current_profile[s], status |-> status])]
          /\ pc' = [pc EXCEPT ![s] = IF status = 0 THEN "save_open" ELSE "raised"]
          /\ err' = [err EXCEPT ![s] = IF status = 0 THEN @ ELSE "CalledProcessError"]
    /\ UNCHANGED <<fsVars, device, op, profiles, button_count, current_profile,
                   self_current_profile, got, loaded, mods, oldptr, overlap, firstRun,
                   savedSince, chain, lastSaved, run, snap>>

\* subprocess.run(["sh", current_profile]): waits for the script, ignores its status.
CycleExec(s) ==
    /\ pc[s] = "exec"
    /\ \E status \in ExitStatuses :
          ran' = [ran EXCEPT ![s] = Append(@, [script |-> current_profile[s], status |-> status])]
    /\ pc' = [pc EXCEPT ![s] = "save_open"]
    /\ UNCHANGED <<fsVars, device, op, profiles, button_count, current_profile,
                   self_current_profile, err, got, loaded, mods, oldptr, overlap, firstRun,
                   savedSince, chain, lastSaved, run, snap>>

\* save_pickled_profile: with open(pickle_fp, "wb") as pf
SaveOpen(s) ==
    /\ pc[s] = "save_open"
    /\ pickle' = OpenWb(pickle)
    /\ oldptr' = [oldptr EXCEPT ![s] = ReadPickle(pickle)]
    /\ savedSince' = [t \in Sessions |-> TRUE]
    /\ chain' = NoChain
    /\ run' = [t \in Sessions |-> IF t = s THEN run[t] ELSE NoRun]
    /\ pc' = [pc EXCEPT ![s] = "save_write"]
    /\ UNCHANGED <<scripts, device, op, profiles, button_count, current_profile,
                   self_current_profile, err, got, loaded, ran, mods, overlap, firstRun,
                   lastSaved, snap>>

\* save_pickled_profile: pickle.dump(profile_fp, pf) and the close of the file
SaveWrite(s) ==
    /\ pc[s] = "save_write"
    /\ pickle' = WriteAt0(pickle, Dump(current_profile[s]))
    /\ mods' = [mods EXCEPT ![s] = Append(@, [ev |-> "save", p |-> current_profile[s]])]
    /\ lastSaved' = current_profile[s]
    /\ run' = [run EXCEPT ![s] =
                  IF @.n = 0 \/ @.n >= Len(profiles[s])
                  THEN [origin |-> loaded[s], n |-> 1]
                  ELSE [@ EXCEPT !.n = @ + 1]]
    /\ pc' = [pc EXCEPT ![s] = "returned"]
    /\ UNCHANGED <<scripts, device, op, profiles, button_count, current_profile,
                   self_current_profile, err, got, loaded, ran, oldptr, overlap, firstRun,
                   savedSince, chain, snap>>

\* The call is over (it returned or raised); the session can be used again.
Finish(s) ==
    /\ pc[s] \in {"returned", "raised"}
    /\ pc' = [pc EXCEPT ![s] = "idle"]
    /\ op' = [op EXCEPT ![s] = None]
    /\ current_profile' = [current_profile EXCEPT ![s] = None]
    /\ err' = [err EXCEPT ![s] = None]
    /\ got' = [got EXCEPT ![s] = Exc("none")]
    /\ loaded' = [loaded EXCEPT ![s] = None]
    /\ ran' = [ran EXCEPT ![s] = <<>>]
    /\ mods' = [mods EXCEPT ![s] = <<>>]
    /\ oldptr' = [oldptr EXCEPT ![s] = Exc("none")]
    /\ overlap' = [overlap EXCEPT ![s] = {}]
    /\ snap' = IF snap.owner = s THEN NoSnap ELSE snap
    /\ UNCHANGED <<fsVars, device, profiles, button_count, self_current_profile,
                   firstRun, savedSince, chain, lastSaved, run>>

----------------------------------------------------------------------------
(* Specifications of the profile store and cycling *)

\* No other session is inside a call.
Quiet(s) == \A t \in Sessions \ {s} : pc[t] \in {"new", "idle", "dead"}

\* Sessions used one call at a time.
Next ==
    \/ \E s \in Sessions : Quiet(s) /\ Construct(s)
    \/ \E s \in Sessions : Quiet(s) /\ CallCycle(s)
    \/ \E s \in Sessions : Quiet(s) /\ CallLoad(s)
    \/ \E s \in Sessions : Quiet(s) /\ LoadRead(s)
    \/ \E s \in Sessions : Quiet(s) /\ LoadTouchPickle(s)
    \/ \E s \in Sessions : Quiet(s) /\ LoadTouchDefault(s)
    \/ \E s \in Sessions : Quiet(s) /\ CycleSelect(s)
    \/ \E s \in Sessions : Quiet(s) /\ CycleExec(s)
    \/ \E s \in Sessions : Quiet(s) /\ SaveOpen(s)
    \/ \E s \in Sessions : Quiet(s) /\ SaveWrite(s)
    \/ \E s \in Sessions : Quiet(s) /\ Finish(s)

Spec == Init /\ [][Next]_vars

\* Sessions of separate processes on the same model directory: calls interleave.
NextConc ==
    \/ \E s \in Sessions : Construct(s)
    \/ \E s \in Sessions : CallCycle(s)
    \/ \E s \in Sessions : CallLoad(s)
    \/ \E s \in Sessions : LoadRead(s)
    \/ \E s \in Sessions : LoadTouchPickle(s)
    \/ \E s \in Sessions : LoadTouchDefault(s)
    \/ \E s \in Sessions : CycleSelect(s)
    \/ \E s \in Sessions : CycleExec(s)
    \/ \E s \in Sessions : SaveOpen(s)
    \/ \E s \in Sessions : SaveWrite(s)
    \/ \E s \in Sessions : Finish(s)

SpecConc == Init /\ [][NextConc]_vars

----------------------------------------------------------------------------
(* Mouse.read_active_profile *)

Logged(q) == [snap EXCEPT !.queries = Append(@, q)]

CallSnapshot(s) ==
    /\ pc[s] = "idle"
    /\ snap.owner = None
    /\ snap' = [NoSnap EXCEPT !.owner = s]
    /\ pc' = [pc EXCEPT ![s] = "rate"]
    /\ op' = [op EXCEPT ![s] = "snapshot"]
    /\ UNCHANGED <<fsVars, device, profiles, button_count, current_profile,
                   self_current_profile, err, histVars>>

\* report_rate = int(get_bash_stdout("... rate get"))
SnapRate(s) ==
    /\ pc[s] = "rate"
    /\ IF device.rate.isint
       THEN /\ snap' = [Logged(Query("rate", 0)) EXCEPT !.report_rate = device.rate.val]
            /\ pc' = [pc EXCEPT ![s] = "res"]
            /\ err' = err
       ELSE /\ snap' = Logged(Query("rate", 0))
            /\ pc' = [pc EXCEPT ![s] = "raised"]
            /\ err' = [err EXCEPT ![s] = "ValueError"]
    /\ UNCHANGED <<fsVars, device, op, profiles, button_count, current_profile,
                   self_current_profile, histVars>>

\* One turn of the "while True" loop over the resolutions.
SnapRes(s) ==
    /\ pc[s] = "res"
    /\ LET res_mo == res_re_match(get_bash_stdout("res", snap.res_idx))
           q      == Logged(Query("resolution", snap.res_idx))
       IN  IF res_mo.matched
           THEN /\ snap' = [q EXCEPT !.resolutions = Append(@, res_mo.groups[1]),
                                     !.res_idx = @ + 1]
                /\ pc' = pc
           ELSE /\ snap' = q
                /\ pc' = [pc EXCEPT ![s] = "btn"]
    /\ UNCHANGED <<fsVars, device, op, profiles, button_count, current_profile,
                   self_current_profile, err, histVars>>

\* Variant of SnapBtn: the button loop ends at the first output that does not
\* match, like the loops over resolutions and LEDs.
SnapBtn_Probe(s) ==
    /\ pc[s] = "btn"
    /\ IF snap.i < button_count[s]
       THEN LET btn_mo == btn_re_match(get_bash_stdout("btn", snap.i))
                q      == Logged(Query("button", snap.i))
            IN  IF btn_mo.matched
                THEN /\ snap' = [q EXCEPT !.buttons = Append(@, ReplaceArrows(btn_mo.groups[1])),
                                          !.i = @ + 1]
                     /\ pc' = pc
                ELSE /\ snap' = q
                     /\ pc' = [pc EXCEPT ![s] = "led"]
       ELSE /\ pc' = [pc EXCEPT ![s] = "led"]
            /\ snap' = snap
    /\ UNCHANGED <<fsVars, device, op, profiles, button_count, current_profile,
                   self_current_profile, err, histVars>>

\* One turn of "for i in range(self.button_count)", or its end; btn_mo.group
\* raises AttributeError when the output did not match.
SnapBtn(s) ==
    /\ pc[s] = "btn"
    /\ IF snap.i < button_count[s]
       THEN LET btn_mo == btn_re_match(get_bash_stdout("btn", snap.i))
                q      == Logged(Query("button", snap.i))
            IN  IF btn_mo.matched
                THEN /\ snap' = [q EXCEPT !.buttons = Append(@, ReplaceArrows(btn_mo.groups[1])),
                                          !.i = @ + 1]
                     /\ UNCHANGED <<pc, err>>
                ELSE /\ snap' = q
                     /\ pc' = [pc EXCEPT ![s] = "raised"]
                     /\ err' = [err EXCEPT ![s] = "AttributeError"]
       ELSE /\ pc' = [pc EXCEPT ![s] = "led"]
            /\ UNCHANGED <<snap, err>>
    /\ UNCHANGED <<fsVars, device, op, profiles, button_count, current_profile,
                   self_current_profile, histVars>>

\* One turn of the "while True" loop over the LEDs; the break is followed by
\* the return of the mouse_profile dict.
SnapLed(s) ==
    /\ pc[s] = "led"
    /\ LET led_mo == led_re_match(get_bash_stdout("led", snap.led_idx))
           q      == Logged(Query("led", snap.led_idx))
       IN  IF led_mo.matched
           THEN /\ snap' = [q EXCEPT !.leds = Append(@, led_mo.groups),
                                     !.led_idx = @ + 1]
                /\ pc' = pc
           ELSE /\ snap' = q
                /\ pc' = [pc EXCEPT ![s] = "returned"]
    /\ UNCHANGED <<fsVars, device, op, profiles, button_count, current_profile,
                   self_current_profile, err, histVars>>

\* Any mouse the tool may report, on a model directory with one profile.
InitSnap ==
    /\ pickle = Absent
    /\ scripts = {NameOrder[1]}
    /\ device \in Devices
    /\ InitSessions

NextSnap ==
    \/ \E s \in Sessions : Construct(s)
    \/ \E s \in Sessions : CallSnapshot(s)
    \/ \E s \in Sessions : SnapRate(s)
    \/ \E s \in Sessions : SnapRes(s)
    \/ \E s \in Sessions : SnapBtn(s)
    \/ \E s \in Sessions : SnapLed(s)
    \/ \E s \in Sessions : Finish(s)

SpecSnap == InitSnap /\ [][NextSnap]_vars

----------------------------------------------------------------------------
(* Properties *)

Empty == [exists |-> TRUE, bytes |-> <<>>]
Pointer(p) == [kind |-> "ok", val |-> p]
Saves(m) == SelectSeq(m, LAMBDA e : e.ev = "save")
CycleDone(s) == pc[s] = "returned" /\ op[s] = "cycle"
PastSelect == {"exec", "save_open", "save_write", "returned"}

\* C1: a cycle_profile call that loaded the profile at index i of a list of
\* length L >= 1 runs and persists the profile at index (i + 1) mod L, and after
\* L consecutive calls of a session the persisted profile is again the one the
\* first of them loaded.
C1_CycleAdvancesAndWraps ==
    \A s \in Sessions :
        CycleDone(s) =>
            LET L == Len(profiles[s])
            IN  /\ L >= 1
                /\ \E i \in 0..(L - 1) :
                      /\ profiles[s][i + 1] = loaded[s]
                      /\ ran[s] # <<>>
                      /\ ran[s][1].script = profiles[s][((i + 1) % L) + 1]
                      /\ ReadPickle(pickle) = Pointer(profiles[s][((i + 1) % L) + 1])
                /\ (run[s].n = L => ReadPickle(pickle) = Pointer(run[s].origin))

\* Three consecutive cycles over a list of three profiles are done.
C1_Witness ==
    \E s \in Sessions : CycleDone(s) /\ Len(profiles[s]) = 3 /\ run[s].n = 3

\* C2: a cycle_profile call whose loaded profile is not in the session's list
\* raises at list.index: it has run no script and made no save, and a load that
\* follows finds what the failed call found; a call gets past the index lookup
\* only with a loaded profile that is in the list.
C2_NotFoundFails ==
    \A s \in Sessions :
        /\ (op[s] = "cycle" /\ pc[s] = "raised" /\ err[s] = "ValueError") =>
              /\ loaded[s] # None
              /\ ~InList(loaded[s], profiles[s])
              /\ ran[s] = <<>>
              /\ Saves(mods[s]) = <<>>
              /\ LoadValue(pickle) = loaded[s]
              /\ ReadPickle(pickle) =
                    (IF got[s].kind = "FileNotFoundError" THEN Exc("EOFError") ELSE got[s])
        /\ (op[s] = "cycle" /\ pc[s] \in PastSelect) => InList(loaded[s], profiles[s])

\* The pickle points at a script that is not in the list of a session that has
\* other profiles, and the session's cycle has failed.
C2_Witness ==
    \E s \in Sessions :
        /\ op[s] = "cycle" /\ pc[s] = "raised" /\ err[s] = "ValueError"
        /\ got[s].kind = "ok"
        /\ profiles[s] # <<>>

\* C3: once a load has found the pickle absent, and until a save opens it,
\* every load returns default.sh, none raises, and after each of them the
\* directory holds an empty pickle, default.sh and the scripts it held before.
C3_AbsentLoadIdempotent ==
    chain.on =>
        \A s \in Sessions :
            /\ (loaded[s] # None =>
                  /\ loaded[s] = DefaultSh
                  /\ pickle = Empty
                  /\ scripts = chain.scripts0 \cup {DefaultSh})
            /\ (pc[s] = "raised" => err[s] = "ValueError")

\* A later load, on the placeholder the first one left, has returned.
C3_Witness ==
    /\ chain.on
    /\ \E s \in Sessions :
          /\ op[s] = "load" /\ pc[s] = "returned"
          /\ got[s].kind = "EOFError"
          /\ loaded[s] = DefaultSh

\* C4: a load that reads the pickle while a save of Q over a valid pointer P
\* is between its open and its close obtains P or Q.
C4_SaveAtomicForReaders ==
    \A r \in Sessions :
        \A o \in overlap[r] :
            got[r].kind = "ok" /\ got[r].val \in {o.old, o.new}

\* C5: whenever no save is between its open and its close, the pickle holds
\* the profile of the save that finished last; two finished cycles of sessions
\* with the same list that loaded the same profile leave the profile that
\* follows it, one position on.
C5_LastWriterWins ==
    /\ ((\A s \in Sessions : pc[s] # "save_write") /\ lastSaved # None) =>
          ReadPickle(pickle) = Pointer(lastSaved)
    /\ \A s, t \in Sessions :
          (s # t /\ CycleDone(s) /\ CycleDone(t)
               /\ loaded[s] = loaded[t] /\ profiles[s] = profiles[t]) =>
              LET L == Len(profiles[s])
              IN  \E i \in 0..(L - 1) :
                      /\ profiles[s][i + 1] = loaded[s]
                      /\ ReadPickle(pickle) = Pointer(profiles[s][((i + 1) % L) + 1])

\* Two cycles that loaded the same pointer of the same list of three are both
\* done, the save of one having opened the file between the open and the
\* close of the other's.
C5_Witness ==
    \E s, t \in Sessions :
        /\ s # t /\ CycleDone(s) /\ CycleDone(t)
        /\ got[s].kind = "ok" /\ got[s] = got[t]
        /\ loaded[s] = loaded[t] /\ profiles[s] = profiles[t]
        /\ Len(profiles[s]) = 3
        /\ oldptr[s].kind = "ok" /\ oldptr[t].kind = "EOFError"

\* Index of the first output of outs that is not of the given kind (the length
\* of outs if all are).
FirstMiss(outs, kind) ==
    CHOOSE k \in 0..Len(outs) :
        /\ \A j \in 1..k : outs[j].kind = kind
        /\ (k < Len(outs) => outs[k + 1].kind # kind)

Asked(cmd) == SelectSeq(snap.queries, LAMBDA q : q.cmd = cmd)
Upto(cmd, n) == [j \in 1..n |-> Query(cmd, j - 1)]

\* C6: with matching outputs for indices 0..k-1 and a non-match at k, the
\* resolution scan and the LED scan ask for indices 0..k in order, keep k
\* entries, entry j from the output for index j, and end without an error.
C6_ScanStopsAtFirstMiss ==
    \A s \in Sessions :
        (snap.owner = s /\ op[s] = "snapshot") =>
            /\ (pc[s] \in {"btn", "led", "returned"} =>
                  LET k == FirstMiss(device.res, "dpi_line")
                  IN  /\ Len(snap.resolutions) = k
                      /\ \A j \in 1..k : snap.resolutions[j] = device.res[j].a
                      /\ Asked("resolution") = Upto("resolution", k + 1))
            /\ (pc[s] = "btn" => err[s] = None)
            /\ (pc[s] = "returned" =>
                  LET k == FirstMiss(device.led, "led_line")
                  IN  /\ Len(snap.leds) = k
                      /\ \A j \in 1..k :
                            snap.leds[j] = <<device.led[j].a, device.led[j].b,
                                             device.led[j].c, None, None>>
                      /\ Asked("led") = Upto("led", k + 1)
                      /\ err[s] = None)

\* A snapshot has returned from a mouse whose second resolution output is an
\* error line: one resolution kept, indices 0 and 1 asked.
C6_Witness ==
    \E s \in Sessions :
        /\ snap.owner = s /\ pc[s] = "returned"
        /\ Len(device.res) = 2 /\ device.res[1] # device.res[2]
        /\ Len(snap.resolutions) = 1
        /\ Len(snap.leds) = 1

\* C7: a snapshot that returns has asked for buttons 0..button_count-1, in
\* order and no others, button_count being the count read at construction, and
\* returns button_count button entries.
C7_ButtonQueriesBounded ==
    \A s \in Sessions :
        (snap.owner = s /\ op[s] = "snapshot" /\ pc[s] = "returned") =>
            /\ button_count[s] = device.count.val
            /\ Asked("button") = Upto("button", button_count[s])
            /\ Len(snap.buttons) = button_count[s]

\* A snapshot of a mouse with two buttons has returned.
C7_Witness ==
    \E s \in Sessions :
        /\ snap.owner = s /\ pc[s] = "returned"
        /\ button_count[s] = 2
        /\ Len(snap.buttons) = 2

\* C8 as stated: a load that finds the pickle absent, empty or corrupt never
\* raises; it leaves a pickle and default.sh and returns default.sh.
C8_LoadNeverRaises ==
    \A s \in Sessions :
        got[s].kind \notin {"none", "ok"} =>
            /\ err[s] \in {None, "ValueError"}
            /\ (loaded[s] # None =>
                  loaded[s] = DefaultSh /\ pickle.exists /\ DefaultSh \in scripts)

\* C8 amended: a load that finds the pickle absent or at end of file (empty,
\* or cut right after the protocol header) does not raise, leaves a pickle and
\* default.sh and returns default.sh; on other corrupt content the
\* UnpicklingError of pickle.load propagates and the pickle stays as it was.
C8_LoadRaisesOnlyUnpickling ==
    \A s \in Sessions :
        /\ got[s].kind \in {"FileNotFoundError", "EOFError"} =>
              /\ err[s] \in {None, "ValueError"}
              /\ (loaded[s] # None =>
                    loaded[s] = DefaultSh /\ pickle.exists /\ DefaultSh \in scripts)
        /\ got[s].kind = "UnpicklingError" =>
              /\ pc[s] = "raised"
              /\ err[s] = "UnpicklingError"
              /\ loaded[s] = None
              /\ ReadPickle(pickle) = got[s]

\* A load has raised on a corrupt pickle.
C8_Witness ==
    \E s \in Sessions :
        pc[s] = "raised" /\ err[s] = "UnpicklingError" /\ got[s].kind = "UnpicklingError"

\* C9 as stated: a finished cycle has changed the pickle file once, by the
\* save of the profile it ran.
C9_FileModifiedOnce ==
    \A s \in Sessions :
        CycleDone(s) =>
            /\ Len(ran[s]) = 1
            /\ mods[s] = <<[ev |-> "save", p |-> ran[s][1].script]>>

\* C9 amended: a cycle loads, selects, runs the selected script and then
\* saves it, whatever the exit status; the save is the only write of a pointer
\* and the last change to the file, and the only other change is the creation
\* of the empty placeholder by the load when the file was absent.
C9_OrderAndSingleSave ==
    \A s \in Sessions :
        op[s] = "cycle" =>
            /\ (pc[s] \in {"load_read", "load_touch_pickle", "load_touch_default", "select"} =>
                  ran[s] = <<>>)
            /\ (pc[s] \in PastSelect => loaded[s] # None)
            /\ (pc[s] = "exec" => ran[s] = <<>>)
            /\ (pc[s] # "returned" => Saves(mods[s]) = <<>>)
            /\ (pc[s] \in {"save_open", "save_write", "returned"} =>
                  /\ Len(ran[s]) = 1
                  /\ ran[s][1].script = current_profile[s]
                  /\ Select(profiles[s], loaded[s]) = [found |-> TRUE, nxt |-> ran[s][1].script])
            /\ (pc[s] = "raised" => ran[s] = <<>>)
            /\ (pc[s] = "returned" =>
                  LET save == [ev |-> "save", p |-> ran[s][1].script]
                  IN  /\ mods[s] = (IF got[s].kind = "FileNotFoundError"
                                    THEN <<[ev |-> "create", p |-> None], save>>
                                    ELSE <<save>>)
                      /\ ReadPickle(pickle) = Pointer(ran[s][1].script))

\* A cycle is done whose script ended with a non-zero status.
C9_Witness ==
    \E s \in Sessions : CycleDone(s) /\ ran[s][1].status = 1

\* C10 as stated: a session constructed on a directory with neither pickle
\* nor default.sh never gets a cycle past the index lookup.
C10_FirstRunNeverCycles ==
    \A s \in Sessions :
        firstRun[s] => ~(op[s] = "cycle" /\ pc[s] \in PastSelect)

\* C10 amended: such a session gets no cycle past the index lookup as long
\* as no save has opened the pickle since its construction; each of its cycles
\* raises ValueError having run no script and saved nothing, and leaves an
\* empty pickle and default.sh; a cycle that starts from the placeholder and
\* gets through belongs to a session constructed when default.sh was there.
C10_FirstRunFailsUntilSaved ==
    \A s \in Sessions :
        /\ (firstRun[s] /\ ~savedSince[s] /\ op[s] = "cycle") =>
              /\ pc[s] \notin PastSelect
              /\ (pc[s] = "raised" =>
                    /\ err[s] = "ValueError"
                    /\ loaded[s] = DefaultSh
                    /\ ~InList(DefaultSh, profiles[s])
                    /\ ran[s] = <<>>
                    /\ mods[s] \in {<<>>, <<[ev |-> "create", p |-> None]>>}
                    /\ pickle = Empty
                    /\ DefaultSh \in scripts)
        /\ (CycleDone(s) /\ got[s].kind \in {"FileNotFoundError", "EOFError"}) =>
              /\ ~firstRun[s]
              /\ InList(DefaultSh, profiles[s])
              /\ loaded[s] = DefaultSh

\* A first-run session with a profile in its list has had a cycle fail.
C10_Witness ==
    \E s \in Sessions :
        /\ firstRun[s] /\ ~savedSince[s]
        /\ op[s] = "cycle" /\ pc[s] = "raised"
        /\ profiles[s] # <<>>

====
